---- MODULE Spec2Model ----
(***************************************************************************)
(* Model of src/app.py ("Macro Intel Pro"): the cached loader load_data    *)
(* with its helper clean_fx, and the script body that Streamlit reruns on  *)
(* every interaction (sidebar, analytics engine, metrics, chart code).     *)
(*                                                                         *)
(* Numbers.  The program computes in IEEE doubles; the model computes in   *)
(* exact rationals <<n, d>> (d > 0, lowest terms).  <<0, 0>> is the        *)
(* Missing value (NaN / pd.NA); it propagates through arithmetic and is    *)
(* skipped by mean(), as in pandas.                                        *)
(*                                                                         *)
(* Dates.  A timestamp is the integer 100 * month + day, where month       *)
(* counts calendar months from January of year 0 of the model and day is   *)
(* the day of the month (1 = month start).  -1 is NaT.                     *)
(***************************************************************************)
EXTENDS Integers, Sequences, FiniteSets, TLC

VARIABLES
    files,      \* the directory: which of the four workbooks exist, and their contents
    cache,      \* st.cache_data's entry for load_data
    fx_m,       \* load_data's locals fx_i, fx_g, fx_s of the last executed load
    df_sorted,  \* load_data's intermediate df.sort_values('Date') of the last executed load
    pc,         \* position of the script run
    w,          \* the sidebar widgets' values in this run
    df_raw,     \* name df_raw: a reference into heap, or "none"
    df,         \* name df: a reference into heap, or "unbound"
    heap,       \* the DataFrame objects the names refer to
    shown,      \* what the run has put on the page
    exc         \* the unhandled exception that ended the run, or "none"

vars == <<files, cache, fx_m, df_sorted, pc, w, df_raw, df, heap, shown, exc>>

Markets == {"India", "UK", "Singapore"}

\* one value per market
PerMarket(val(_)) == [India |-> val("India"), UK |-> val("UK"), Singapore |-> val("Singapore")]

-----------------------------------------------------------------------------
(* Exact arithmetic with Missing.                                          *)

NaN == <<0, 0>>

IsNa(x) == x[2] = 0

Abs(n) == IF n < 0 THEN -n ELSE n

RECURSIVE GCD(_, _)
GCD(a, b) == IF b = 0 THEN a ELSE GCD(b, a % b)

Norm(n, d) ==
    LET s == IF d < 0 THEN -1 ELSE 1
        g == GCD(Abs(n), Abs(d))
    IN  <<(s * n) \div g, (s * d) \div g>>

Num(n) == <<n, 1>>

Frac(n, d) == Norm(n, d)

RAdd(a, b) == IF IsNa(a) \/ IsNa(b) THEN NaN ELSE Norm(a[1] * b[2] + b[1] * a[2], a[2] * b[2])

RSub(a, b) == IF IsNa(a) \/ IsNa(b) THEN NaN ELSE Norm(a[1] * b[2] - b[1] * a[2], a[2] * b[2])

RMul(a, b) == IF IsNa(a) \/ IsNa(b) THEN NaN ELSE Norm(a[1] * b[1], a[2] * b[2])

RECURSIVE SumSeq(_)
SumSeq(s) == IF s = <<>> THEN Num(0) ELSE RAdd(Head(s), SumSeq(Tail(s)))

SelectNotNa(s) == SelectSeq(s, LAMBDA x : ~IsNa(x))

\* Faulty variant of MeanOf: Missing entries count as 0 in the denominator.
MeanOfZeroFilled(s) ==
    LET xs == SelectNotNa(s)
    IN  IF xs = <<>> THEN NaN
        ELSE LET t == SumSeq(xs) IN Norm(t[1], t[2] * Len(s))

\* Series.mean(): NaN entries are skipped (skipna=True); no entry left gives NaN.
MeanOf(s) ==
    LET xs == SelectNotNa(s)
    IN  IF xs = <<>> THEN NaN
        ELSE LET t == SumSeq(xs) IN Norm(t[1], t[2] * Len(xs))

-----------------------------------------------------------------------------
(* Timestamps.                                                             *)

NaT == -1

MonthsPerYear == 12

MonthOf(t) == t \div 100

MonthStart(m) == 100 * m + 1

\* Series.dt.year: the calendar year of a timestamp, NaN (-1) for NaT.
YearOf(t) == IF t = NaT THEN -1 ELSE MonthOf(t) \div MonthsPerYear

-----------------------------------------------------------------------------
(* Spreadsheet cells and pandas' coercions.                                *)
(* A date cell is [k |-> "date", v |-> timestamp] or [k |-> "text", ...].  *)
(* A value cell is a number ("num"), a text that reads as a number         *)
(* ("numstr"), any other text such as "ND" ("text"), or empty ("blank").   *)

\* pd.to_datetime(cell, errors='coerce')
ToDatetime(c) == IF c.k = "date" THEN c.v ELSE NaT

\* Series.replace(0, pd.NA): a cell equal to the number 0 becomes NA; the text "0" is not equal to 0.
ReplaceZero(c) == IF c.k = "num" /\ c.v = 0 THEN [k |-> "blank", v |-> 0] ELSE c

\* pd.to_numeric(cell, errors='coerce')
ToNumeric(c) == IF c.k \in {"num", "numstr"} THEN Num(c.v) ELSE NaN

-----------------------------------------------------------------------------
(* Column fills.  na is the column's mask of Missing entries.              *)

MaxOf(S) == CHOOSE x \in S : \A y \in S : y <= x

MinOf(S) == CHOOSE x \in S : \A y \in S : x <= y

\* Series.ffill() on the first n entries: a Missing entry takes the entry before it as
\* already filled (if that one is Missing too, nothing earlier has a value).
RECURSIVE FFillUpTo(_, _, _)
FFillUpTo(col, na, n) ==
    IF n = 0 THEN <<>>
    ELSE LET p == FFillUpTo(col, na, n - 1)
         IN  Append(p, IF na[n] /\ n > 1 THEN p[n - 1] ELSE col[n])

\* Series.ffill(): a Missing entry takes the last earlier non-Missing entry, if any.
FFill(col, na) == FFillUpTo(col, na, Len(col))

\* Series.bfill() on the entries from n on: a Missing entry takes the entry after it as
\* already filled.
RECURSIVE BFillFrom(_, _, _)
BFillFrom(col, na, n) ==
    IF n > Len(col) THEN <<>>
    ELSE LET p == BFillFrom(col, na, n + 1)
         IN  <<IF na[n] /\ n < Len(col) THEN p[1] ELSE col[n]>> \o p

\* Series.bfill(): a Missing entry takes the first later non-Missing entry, if any.
BFill(col, na) == BFillFrom(col, na, 1)

RatMask(col) == [i \in 1..Len(col) |-> IsNa(col[i])]

IntMask(col) == [i \in 1..Len(col) |-> col[i] = -1]

\* Faulty variant of FillRat: the forward fill alone.
FillRatForwardOnly(col) == FFill(col, RatMask(col))

\* .ffill().bfill() on a float column
FillRat(col) == LET f == FFill(col, RatMask(col)) IN BFill(f, RatMask(f))

\* .ffill().bfill() on a datetime column (NaT) or on the Year column (NaN), both -1 here
FillInt(col) == LET f == FFill(col, IntMask(col)) IN BFill(f, IntMask(f))

-----------------------------------------------------------------------------
(* clean_fx (lines 64-73).                                                 *)
(* An FX workbook is [sheet, dcol, vcol, obs]: whether it has a sheet not  *)
(* named README, whether that sheet has a column with 'date' in its name,  *)
(* whether it has another column, and the sheet's rows [d, v] (date cell,  *)
(* value cell).  The result is the sequence of rows [Date, v] of the       *)
(* returned frame.                                                         *)

\* pd.DataFrame(columns=['Date', out_name]): the frame of the except branch
FxEmpty == <<>>

\* lines 70-71: the two column coercions
FxCoerced(obs) ==
    [i \in 1..Len(obs) |-> [d |-> ToDatetime(obs[i].d), v |-> ToNumeric(ReplaceZero(obs[i].v))]]

\* f.dropna(subset=[d_col])
FxDropNaT(rows) == SelectSeq(rows, LAMBDA r : r.d # NaT)

\* the v values of the rows dated in month m, in row order
RECURSIVE ValuesIn(_, _)
ValuesIn(rows, m) ==
    IF rows = <<>> THEN <<>>
    ELSE (IF MonthOf(Head(rows).d) = m THEN <<Head(rows).v>> ELSE <<>>) \o ValuesIn(Tail(rows), m)

\* .resample('MS', on=d_col).mean(): one bin per month from the first to the last
\* month that holds a row; a bin without a numeric value is NaN.
ResampleMean(rows) ==
    IF rows = <<>> THEN <<>>
    ELSE LET ms == {MonthOf(rows[i].d) : i \in 1..Len(rows)}
             lo == MinOf(ms)
             hi == MaxOf(ms)
         IN  [k \in 1..(hi - lo + 1) |->
                [Date |-> MonthStart(lo + k - 1), v |-> MeanOf(ValuesIn(rows, lo + k - 1))]]

\* .ffill().bfill() of the resampled frame (its only column is the value column)
FxFilled(bins) ==
    LET col == FillRat([k \in 1..Len(bins) |-> bins[k].v])
    IN  [k \in 1..Len(bins) |-> [Date |-> bins[k].Date, v |-> col[k]]]

\* lines 66, 68, 69: each [0] on an empty list raises IndexError
FxStructureFails(src) == ~src.sheet \/ ~src.dcol \/ ~src.vcol

CleanFx(src) ==
    IF FxStructureFails(src) THEN FxEmpty
    ELSE FxFilled(ResampleMean(FxDropNaT(FxCoerced(src.obs))))

-----------------------------------------------------------------------------
(* load_data (lines 55-79).                                                *)
(* files is [exists, readable, macro, gdp, fx]:                            *)
(*   exists    which of the four workbooks are in the directory;           *)
(*   readable  whether EM_Macro_Data_India_SG_UK.xlsx has the sheets       *)
(*             'Macro data' (with a Date column) and 'GDP_Growth' (with    *)
(*             five columns), i.e. whether lines 59-62 raise nothing;      *)
(*   macro     the rows [d, CPI, Policy] of 'Macro data' (d a date cell,   *)
(*             CPI and Policy the cells of the three markets, floats or    *)
(*             Missing);                                                   *)
(*   gdp       the rows [Year, GDP] of 'GDP_Growth' below its header       *)
(*             (Year -1 when the cell is empty);                           *)
(*   fx        the FX workbook of each market.                             *)
(* A frame is [none, rows, Taylor]: none marks Python's None; rows are     *)
(* records [Date, Year, CPI, Policy, GDP, FX]; Taylor is the column added  *)
(* by the analytics engine, <<>> while the frame has no such column.       *)

FileKeys == {"workbook", "inr", "gbp", "sgd"}

\* line 56 and line 75: the workbook each FX column is read from
FxFile(m) == CASE m = "India" -> "inr" [] m = "UK" -> "gbp" [] OTHER -> "sgd"

NoneFrame == [none |-> TRUE, rows |-> <<>>, Taylor |-> <<>>]

Frame(rows) == [none |-> FALSE, rows |-> rows, Taylor |-> <<>>]

AllNaN == [India |-> NaN, UK |-> NaN, Singapore |-> NaN]

\* line 57
AllFilesExist(f) == \A k \in FileKeys : f.exists[k]

\* lines 59-60: df_m with its Date column coerced
MacroFrame(f) ==
    [i \in 1..Len(f.macro) |->
        [Date |-> ToDatetime(f.macro[i].d), CPI |-> f.macro[i].CPI, Policy |-> f.macro[i].Policy]]

\* Faulty variant of GdpFrame: the first row is not dropped.
GdpFrameAll(f) == f.gdp

\* lines 61-62: .iloc[1:, [0, 2, 3, 4]] drops the first row below the header
GdpFrame(f) == IF f.gdp = <<>> THEN <<>> ELSE Tail(f.gdp)

\* Faulty variant of KeepUnmatched: an inner join drops the row.
DropUnmatched(row) == <<>>

\* how='left': a left row without a match is kept, with Missing in the right columns
KeepUnmatched(row) == <<row>>

\* line 76 and the first merge of line 77: one output row per matching df_g row
\* (equal Year; pandas matches a NaN key with a NaN key), in df_g's order.
RECURSIVE MergeGdp(_, _)
MergeGdp(left, g) ==
    IF left = <<>> THEN <<>>
    ELSE LET r  == Head(left)
             y  == YearOf(r.Date)
             ms == SelectSeq(g, LAMBDA x : x.Year = y)
             base == [Date |-> r.Date, Year |-> y, CPI |-> r.CPI, Policy |-> r.Policy,
                      GDP |-> AllNaN, FX |-> AllNaN]
         IN  (IF ms = <<>> THEN KeepUnmatched(base)
              ELSE [k \in 1..Len(ms) |-> [base EXCEPT !.GDP = ms[k].GDP]])
             \o MergeGdp(Tail(left), g)

\* one .merge(fx, on='Date', how='left'): fx has one row per month start, so a left
\* row matches at most one row of fx.
RECURSIVE MergeFx(_, _, _)
MergeFx(left, fx, m) ==
    IF left = <<>> THEN <<>>
    ELSE LET r  == Head(left)
             ks == {k \in 1..Len(fx) : fx[k].Date = r.Date}
         IN  (IF ks = {} THEN KeepUnmatched(r)
              ELSE <<[r EXCEPT !.FX[m] = fx[CHOOSE k \in ks : TRUE].v]>>)
             \o MergeFx(Tail(left), fx, m)

\* line 75: fx_i, fx_g, fx_s
CleanAll(f) == PerMarket(LAMBDA m : CleanFx(f.fx[m]))

\* line 77: the four merges
Merged(f) ==
    LET fxs == CleanAll(f)
    IN  MergeFx(MergeFx(MergeFx(MergeGdp(MacroFrame(f), GdpFrame(f)),
                                fxs["India"], "India"), fxs["UK"], "UK"),
                fxs["Singapore"], "Singapore")

\* The orders in which the rows I (indices into rows, all with a Date) can come out
\* ascending by Date: rows with equal Date in any order.
RECURSIVE AscendingOrders(_, _)
AscendingOrders(rows, I) ==
    IF I = {} THEN {<<>>}
    ELSE LET lo == MinOf({rows[i].Date : i \in I})
         IN  UNION {{<<i>> \o t : t \in AscendingOrders(rows, I \ {i})} :
                        i \in {j \in I : rows[j].Date = lo}}

\* the indices I in ascending order
RECURSIVE InOrder(_)
InOrder(I) == IF I = {} THEN <<>> ELSE <<MinOf(I)>> \o InOrder(I \ {MinOf(I)})

\* df.sort_values('Date'): ascending, rows with NaT last in their given order.  The
\* default sort (quicksort) is not stable, so rows with equal Date may come out in
\* any order.
SortValues(rows) ==
    LET dated == {i \in 1..Len(rows) : rows[i].Date # NaT}
        nat   == InOrder((1..Len(rows)) \ dated)
    IN  {[k \in 1..Len(rows) |-> rows[(p \o nat)[k]]] : p \in AscendingOrders(rows, dated)}

\* .ffill().bfill() of line 78, column by column (Date and Year included)
FillFrame(rows) ==
    LET n    == Len(rows)
        date == FillInt([i \in 1..n |-> rows[i].Date])
        year == FillInt([i \in 1..n |-> rows[i].Year])
        cpi  == PerMarket(LAMBDA m : FillRat([i \in 1..n |-> rows[i].CPI[m]]))
        pol  == PerMarket(LAMBDA m : FillRat([i \in 1..n |-> rows[i].Policy[m]]))
        gdp  == PerMarket(LAMBDA m : FillRat([i \in 1..n |-> rows[i].GDP[m]]))
        fx   == PerMarket(LAMBDA m : FillRat([i \in 1..n |-> rows[i].FX[m]]))
    IN  [i \in 1..n |->
            [Date |-> date[i], Year |-> year[i],
             CPI    |-> PerMarket(LAMBDA m : cpi[m][i]),
             Policy |-> PerMarket(LAMBDA m : pol[m][i]),
             GDP    |-> PerMarket(LAMBDA m : gdp[m][i]),
             FX     |-> PerMarket(LAMBDA m : fx[m][i])]]

\* The merges of line 77 when the 'Macro data' sheet has no row and clean_fx returned
\* the frame of its except branch: both Date keys are empty, one of dtype datetime64
\* and one of dtype object.  pandas checks the key dtypes unless exactly one side is
\* empty, and versions that refuse datetime64 against object raise ValueError, which
\* line 79 turns into None.
MergeMayBeRefused(f) == f.macro = <<>> /\ \E m \in Markets : FxStructureFails(f.fx[m])

\* Faulty variant of LoadFails: clean_fx lets its exception through to line 79.
LoadFailsOnFx(f) == ~AllFilesExist(f) \/ ~f.readable \/ \E m \in Markets : FxStructureFails(f.fx[m])

\* Whether load_data returns None: line 57, or an exception of lines 59-62 caught at line 79
LoadFails(f) == ~AllFilesExist(f) \/ ~f.readable

-----------------------------------------------------------------------------
(* The analytics engine (lines 117-137).                                   *)
(* w is [market, scenario, severity, rate_intervention, view_real, lag].   *)
(* The other sidebar widgets (horizon, show_taylor, sentiment,             *)
(* energy_shock, target_inf, stance) change nothing the model observes.    *)

\* m_map[market]['t'], lines 118-120
Target(market) == IF market = "India" THEN Num(4) ELSE Num(2)

\* m_map[market]['n'], lines 118-120
Neutral(market) == IF market = "India" THEN Frac(9, 2) ELSE Frac(5, 2)

Scenarios == {"Standard", "Stagflation", "Depression", "High Growth"}

\* lines 127-132: the additive shock to CPI at severity 100
CpiDelta(sc) ==
    CASE sc = "Stagflation" -> Num(5)
      [] sc = "Depression"  -> Num(-2)
      [] sc = "High Growth" -> Num(-1)
      [] OTHER              -> Num(0)

\* lines 127-132: the additive shock to GDP at severity 100
GdpDelta(sc) ==
    CASE sc = "Stagflation" -> Num(-3)
      [] sc = "Depression"  -> Num(-8)
      [] sc = "High Growth" -> Num(4)
      [] OTHER              -> Num(0)

\* line 124
Mult(x) == Frac(x.severity, 100)

\* lines 125-132: the manual rate adjustment, then the scenario's shocks.  A column
\* update of "Standard" is no statement at all, so Missing cells stay as they are.
Shocked(f, x) ==
    LET mk == x.market
        up(r) == [r EXCEPT
                    !.Policy[mk] = RAdd(@, Frac(x.rate_intervention, 100)),
                    !.CPI[mk]    = IF x.scenario = "Standard" THEN @
                                   ELSE RAdd(@, RMul(CpiDelta(x.scenario), Mult(x))),
                    !.GDP[mk]    = IF x.scenario = "Standard" THEN @
                                   ELSE RAdd(@, RMul(GdpDelta(x.scenario), Mult(x)))]
    IN  [f EXCEPT !.rows = [i \in 1..Len(f.rows) |-> up(f.rows[i])]]

\* line 134
AvgG(f, x) == MeanOf([i \in 1..Len(f.rows) |-> f.rows[i].GDP[x.market]])

\* line 135, for one row
TaylorOf(r, avg, x) ==
    RAdd(RAdd(Neutral(x.market), RMul(Frac(1, 2), RSub(r.CPI[x.market], Target(x.market)))),
         RMul(Frac(1, 2), RSub(r.GDP[x.market], avg)))

\* lines 134-135: the new column
WithTaylor(f, x) ==
    [f EXCEPT !.Taylor = [i \in 1..Len(f.rows) |-> TaylorOf(f.rows[i], AvgG(f, x), x)]]

\* line 136
RealRate(f, x) ==
    IF ~x.view_real THEN f
    ELSE [f EXCEPT !.rows = [i \in 1..Len(f.rows) |->
            [f.rows[i] EXCEPT !.Policy[x.market] = RSub(@, f.rows[i].CPI[x.market])]]]

\* Series.shift(k): entry i takes entry i - k, the first k entries become Missing
Shift(col, k) == [i \in 1..Len(col) |-> IF i <= k THEN NaN ELSE col[i - k]]

\* line 137
Lagged(f, x) ==
    IF x.lag <= 0 THEN f
    ELSE LET n   == Len(f.rows)
             cpi == Shift([i \in 1..n |-> f.rows[i].CPI[x.market]], x.lag)
             gdp == Shift([i \in 1..n |-> f.rows[i].GDP[x.market]], x.lag)
         IN  [f EXCEPT !.rows = [i \in 1..n |->
                [f.rows[i] EXCEPT !.CPI[x.market] = cpi[i], !.GDP[x.market] = gdp[i]]]]

\* Faulty variant of EngineFrame: the Taylor column is computed after the real-rate conversion and the lag.
EngineFrameLate(f, x) == WithTaylor(Lagged(RealRate(Shocked(f, x), x), x), x)

\* lines 124-137 in the order the statements stand in
EngineFrame(f, x) == Lagged(RealRate(WithTaylor(Shocked(f, x), x), x), x)

\* Faulty variant of DfCopy: df = df_raw, no copy.
DfAlias(src) == src

\* df_raw.copy(), line 122: the reference of a new object
DfCopy(src) == "work"

-----------------------------------------------------------------------------
(* Inputs: the contents of the directory.                                  *)

MaxRows == 3        \* rows of the 'Macro data' sheet
MaxGdpRows == 3     \* rows of the 'GDP_Growth' sheet below its header
MaxObs == 3         \* rows of an FX sheet

DateCell(t) == [k |-> "date", v |-> t]
TextCell == [k |-> "text", v |-> 0]
BlankCell == [k |-> "blank", v |-> 0]
NumCell(n) == [k |-> "num", v |-> n]
NumStrCell(n) == [k |-> "numstr", v |-> n]

Vec(a, b, c) == [India |-> a, UK |-> b, Singapore |-> c]

SeqsUpTo(S, n) == UNION {[1..k -> S] : k \in 0..n}

\* 'Macro data' rows: month starts of two years, and a date cell that does not parse
MacroDateCells == {TextCell, DateCell(MonthStart(0)), DateCell(MonthStart(1)), DateCell(MonthStart(12))}

MacroValues ==
    {[CPI |-> Vec(Num(5), Num(2), Num(1)), Policy |-> Vec(Num(6), Num(4), Num(3))],
     [CPI |-> AllNaN, Policy |-> AllNaN]}

MacroRows == {[d |-> c, CPI |-> x.CPI, Policy |-> x.Policy] : c \in MacroDateCells, x \in MacroValues}

MacroRow(t, cpi, pol) == [d |-> DateCell(t), CPI |-> Vec(Num(cpi), Num(2), Num(1)), Policy |-> Vec(Num(pol), Num(4), Num(3))]

\* four consecutive months, the last with India's CPI 5.0 and policy rate 6.0
MacroRamp ==
    <<MacroRow(MonthStart(10), 4, 5), MacroRow(MonthStart(11), 6, 5),
      MacroRow(MonthStart(12), 7, 6), MacroRow(MonthStart(13), 5, 6)>>

MacroPair == <<MacroRow(MonthStart(0), 5, 6), [d |-> TextCell, CPI |-> AllNaN, Policy |-> AllNaN]>>

\* 'GDP_Growth' rows: years 0 and 1, a repeated year, a year without a value, an empty Year cell
GdpRows ==
    {[Year |-> 0, GDP |-> Vec(Num(6), Num(2), Num(3))],
     [Year |-> 0, GDP |-> Vec(Num(7), Num(1), Num(4))],
     [Year |-> 0, GDP |-> AllNaN],
     [Year |-> 1, GDP |-> Vec(Num(8), Num(3), Num(2))],
     [Year |-> -1, GDP |-> Vec(Num(9), Num(9), Num(9))]}

GdpUnits == [Year |-> -1, GDP |-> AllNaN]

GdpPlain == <<GdpUnits, [Year |-> 0, GDP |-> Vec(Num(6), Num(2), Num(3))], [Year |-> 1, GDP |-> Vec(Num(8), Num(3), Num(2))]>>

GdpOdd == <<GdpUnits, [Year |-> 1, GDP |-> Vec(Num(8), Num(3), Num(2))], [Year |-> -1, GDP |-> Vec(Num(9), Num(9), Num(9))]>>

\* FX rows: a date cell that does not parse, a day of month 0, a day of month 2
FxDateCells == {TextCell, DateCell(15), DateCell(203)}

FxValueCells == {NumCell(0), NumCell(10), NumCell(30), NumStrCell(0), TextCell, BlankCell}

FxRowsSet == {[d |-> c, v |-> x] : c \in FxDateCells, x \in FxValueCells}

FxBook(obs) == [sheet |-> TRUE, dcol |-> TRUE, vcol |-> TRUE, obs |-> obs]

\* workbooks that fail structurally: no sheet but README, no date column, no value column
FxBroken ==
    {[sheet |-> FALSE, dcol |-> TRUE, vcol |-> TRUE, obs |-> <<>>],
     [sheet |-> TRUE, dcol |-> FALSE, vcol |-> TRUE, obs |-> <<>>],
     [sheet |-> TRUE, dcol |-> TRUE, vcol |-> FALSE, obs |-> <<>>]}

\* months 0 and 2 have values, month 1 has none; one Missing cell in month 0
FxGap == FxBook(<<[d |-> DateCell(1), v |-> NumCell(10)], [d |-> DateCell(2), v |-> TextCell],
                  [d |-> DateCell(3), v |-> NumCell(30)], [d |-> DateCell(201), v |-> NumCell(40)]>>)

\* months 12 and 13
FxLate == FxBook(<<[d |-> DateCell(1215), v |-> NumCell(80)], [d |-> DateCell(1301), v |-> NumCell(82)]>>)

FxSample == {FxGap, FxLate} \cup FxBroken

Present == [k \in FileKeys |-> TRUE]

Without(k) == [Present EXCEPT ![k] = FALSE]

World(ex, rd, macro, gdp, fxI) ==
    [exists |-> ex, readable |-> rd, macro |-> macro, gdp |-> gdp,
     fx |-> [India |-> fxI, UK |-> FxGap, Singapore |-> FxLate]]

\* the directories load_data is checked on
LoadWorlds ==
    {World(Present, TRUE, mc, g, fxI) :
        mc \in SeqsUpTo(MacroRows, MaxRows), g \in {GdpPlain, GdpOdd}, fxI \in {FxGap}}
    \cup {World(Present, TRUE, mc, g, fxI) :
        mc \in {MacroRamp, MacroPair}, g \in SeqsUpTo(GdpRows, MaxGdpRows), fxI \in {FxGap, FxLate}}
    \cup {World(ex, rd, mc, GdpPlain, fxI) :
        ex \in {Present} \cup {Without(k) : k \in FileKeys}, rd \in BOOLEAN,
        mc \in {MacroRamp, MacroPair, <<>>}, fxI \in FxSample}

\* the FX workbooks clean_fx is checked on
FxWorlds ==
    {World(Present, TRUE, MacroPair, GdpPlain, FxBook(obs)) : obs \in SeqsUpTo(FxRowsSet, MaxObs)}
    \cup {World(Present, TRUE, MacroPair, GdpPlain, b) : b \in FxBroken}

\* the directories the script is run in
RunWorlds ==
    {World(Present, TRUE, mc, GdpPlain, FxGap) : mc \in {MacroRamp, MacroPair, <<>>}}
    \cup {World(Without("gbp"), TRUE, MacroRamp, GdpPlain, FxGap),
          World(Present, FALSE, MacroRamp, GdpPlain, FxGap),
          World(Present, TRUE, <<>>, GdpPlain, [sheet |-> TRUE, dcol |-> FALSE, vcol |-> TRUE, obs |-> <<>>])}

Severities == {50, 100}             \* of the slider's 0..100
RateSteps == {0, 25}                \* of the slider's -200..200 in steps of 25
Lags == {0, 3, 6, 12}               \* line 97

Widgets ==
    [market : Markets, scenario : Scenarios, severity : Severities,
     rate_intervention : RateSteps, view_real : BOOLEAN, lag : Lags]

DefaultWidgets ==
    [market |-> "India", scenario |-> "Standard", severity |-> 50,
     rate_intervention |-> 0, view_real |-> FALSE, lag |-> 0]

-----------------------------------------------------------------------------
(* The state machine.                                                      *)

EmptyCache == [hit |-> FALSE, value |-> NoneFrame]

NoFx == [India |-> FxEmpty, UK |-> FxEmpty, Singapore |-> FxEmpty]

EmptyHeap == [r \in {"raw", "work"} |-> NoneFrame]

InitRun(worlds, at) ==
    /\ files \in worlds
    /\ cache = EmptyCache
    /\ fx_m = NoFx
    /\ df_sorted = <<>>
    /\ pc = at
    /\ w = DefaultWidgets
    /\ df_raw = "unbound"
    /\ df = "unbound"
    /\ heap = EmptyHeap
    /\ shown = {}
    /\ exc = "none"

Init == InitRun(RunWorlds, "start")

InitLoad == InitRun(LoadWorlds, "load")

InitFx == InitRun(FxWorlds, "fx")

\* A script run starts (any interaction, or the first page load): the sidebar,
\* lines 82-112, reads the widgets; the names of the last run are gone.
Sidebar ==
    /\ pc \in {"start", "ended"}
    /\ \E x \in Widgets : w' = x
    /\ pc' = "load"
    /\ df_raw' = "unbound"
    /\ df' = "unbound"
    /\ heap' = EmptyHeap
    /\ shown' = {}
    /\ exc' = "none"
    /\ UNCHANGED <<files, cache, fx_m, df_sorted>>

\* RESET PARAMETERS, lines 84-86: the cache is cleared and the script starts over
ResetParameters ==
    /\ pc \in {"start", "ended"}
    /\ cache.hit
    /\ cache' = EmptyCache
    /\ pc' = "start"
    /\ df_raw' = "unbound"
    /\ df' = "unbound"
    /\ heap' = EmptyHeap
    /\ shown' = {}
    /\ exc' = "none"
    /\ UNCHANGED <<files, fx_m, df_sorted, w>>

\* What the statement df_raw = load_data() leaves, given the returned object
Returned(frame) ==
    /\ df_raw' = "raw"
    /\ heap' = [heap EXCEPT !["raw"] = frame]
    /\ pc' = IF frame.none THEN "line159" ELSE "engine"
    /\ UNCHANGED <<files, w, df, shown, exc>>

\* line 115 with an entry in the cache: st.cache_data hands out a copy of the stored value
LoadDataCached ==
    /\ pc = "load"
    /\ cache.hit
    /\ Returned(cache.value)
    /\ UNCHANGED <<cache, fx_m, df_sorted>>

\* line 115 without an entry: the body of load_data runs, and its result is stored
LoadDataRun ==
    /\ pc = "load"
    /\ ~cache.hit
    /\ IF LoadFails(files)
       THEN /\ Returned(NoneFrame)
            /\ cache' = [hit |-> TRUE, value |-> NoneFrame]
            /\ fx_m' = NoFx
            /\ df_sorted' = <<>>
       ELSE \E s \in SortValues(Merged(files)) :
            LET fr == Frame(FillFrame(s))
            IN  /\ Returned(fr)
                /\ cache' = [hit |-> TRUE, value |-> fr]
                /\ fx_m' = CleanAll(files)
                /\ df_sorted' = s

\* line 115 without an entry, when pandas refuses the merge of line 77
LoadDataRefused ==
    /\ pc = "load"
    /\ ~cache.hit
    /\ ~LoadFails(files)
    /\ MergeMayBeRefused(files)
    /\ Returned(NoneFrame)
    /\ cache' = [hit |-> TRUE, value |-> NoneFrame]
    /\ fx_m' = CleanAll(files)
    /\ df_sorted' = <<>>

\* lines 116-137
AnalyticsEngine ==
    /\ pc = "engine"
    /\ LET r  == DfCopy(df_raw)
           h1 == [heap EXCEPT ![r] = heap[df_raw]]
       IN  /\ df' = r
           /\ heap' = [h1 EXCEPT ![r] = EngineFrame(h1[r], w)]
    /\ pc' = "metrics"
    /\ UNCHANGED <<files, cache, fx_m, df_sorted, w, df_raw, shown, exc>>

\* lines 139-155: the title, then the four metrics from the last row (.iloc[-1] of an
\* empty column raises IndexError); fig1 is built but not yet plotted.
RenderMetrics ==
    /\ pc = "metrics"
    /\ IF heap[df].rows = <<>>
       THEN /\ shown' = shown \cup {"title"}
            /\ exc' = "IndexError"
            /\ pc' = "ended"
       ELSE /\ shown' = shown \cup {"title", "metrics"}
            /\ exc' = "none"
            /\ pc' = "line159"
    /\ UNCHANGED <<files, cache, fx_m, df_sorted, w, df_raw, df, heap>>

\* line 159 stands at module level, after the if block whatever branch was taken:
\* fig.add_trace(...) reads the name fig, which nothing binds, so NameError ends the
\* run.  Lines 162-212 (the for loop with st.plotly_chart, the cards, and the for's
\* else with st.error) are never reached.
TaylorLine ==
    /\ pc = "line159"
    /\ exc' = "NameError"
    /\ pc' = "ended"
    /\ UNCHANGED <<files, cache, fx_m, df_sorted, w, df_raw, df, heap, shown>>

\* clean_fx applied to each FX workbook (line 75), on its own
CleanFxCall ==
    /\ pc = "fx"
    /\ fx_m' = CleanAll(files)
    /\ pc' = "cleaned"
    /\ UNCHANGED <<files, cache, df_sorted, w, df_raw, df, heap, shown, exc>>

Next ==
    \/ Sidebar
    \/ ResetParameters
    \/ LoadDataCached
    \/ LoadDataRun
    \/ LoadDataRefused
    \/ AnalyticsEngine
    \/ RenderMetrics
    \/ TaylorLine

Spec == Init /\ [][Next]_vars

\* load_data alone, over LoadWorlds
NextLoad == LoadDataRun \/ LoadDataRefused

SpecLoad == InitLoad /\ [][NextLoad]_vars

\* clean_fx alone, over FxWorlds
SpecFx == InitFx /\ [][CleanFxCall]_vars

-----------------------------------------------------------------------------
(* Properties.  The helpers for load_data and clean_fx read the sheets    *)
(* directly and use none of the operators that model their computation.   *)

Loaded == pc # "load" /\ df_raw = "raw" /\ ~heap["raw"].none

BaseRows == heap["raw"].rows

\* the rows of an FX sheet dated in month m whose value cell satisfies counts
FxCellsIn(src, m, counts(_)) ==
    {i \in 1..Len(src.obs) :
        /\ src.obs[i].d.k = "date"
        /\ src.obs[i].d.v \div 100 = m
        /\ counts(src.obs[i].v)}

\* a value cell that holds a number
IsNumeric(c) == c.k \in {"num", "numstr"}

\* a value cell that holds a number and is not the number 0
IsCounted(c) == c.k = "numstr" \/ (c.k = "num" /\ c.v # 0)

RECURSIVE CellSum(_, _)
CellSum(src, I) ==
    IF I = {} THEN 0
    ELSE LET i == CHOOSE j \in I : TRUE IN src.obs[i].v.v + CellSum(src, I \ {i})

\* x is the arithmetic mean of the cells I of src
IsMeanOf(x, src, I) == x[2] # 0 /\ x[1] * Cardinality(I) = CellSum(src, I) * x[2]

FxStructureOk(src) == src.sheet /\ src.dcol /\ src.vcol

FxMonths(src) ==
    {src.obs[i].d.v \div 100 : i \in {j \in 1..Len(src.obs) : src.obs[j].d.k = "date"}}

\* the value clean_fx's frame holds for month m is the mean of the cells I
FxValueIsMean(fx, src, m, I) ==
    \E k \in 1..Len(fx) : fx[k].Date = 100 * m + 1 /\ IsMeanOf(fx[k].v, src, I)

\* C1 as claimed: in clean_fx's result, every month with a numeric daily value holds
\* the mean of all numeric values of the month, whatever they are.
C1_MeanOfAllNumeric ==
    pc = "cleaned" =>
        \A mk \in Markets : FxStructureOk(files.fx[mk]) =>
            \A m \in FxMonths(files.fx[mk]) :
                FxCellsIn(files.fx[mk], m, IsNumeric) # {} =>
                    FxValueIsMean(fx_m[mk], files.fx[mk], m, FxCellsIn(files.fx[mk], m, IsNumeric))

\* C1 as amended: in clean_fx's result, every month with a nonzero numeric daily value
\* holds the mean of exactly the month's numeric values other than cells equal to the
\* number 0; those, like blank and non-numeric cells, are left out of the denominator.
C1_MeanOfCounted ==
    pc = "cleaned" =>
        \A mk \in Markets : FxStructureOk(files.fx[mk]) =>
            \A m \in FxMonths(files.fx[mk]) :
                FxCellsIn(files.fx[mk], m, IsCounted) # {} =>
                    FxValueIsMean(fx_m[mk], files.fx[mk], m, FxCellsIn(files.fx[mk], m, IsCounted))

\* C1's case: month 0 of India's sheet holds 10, 30 and a non-numeric cell, and the
\* monthly value is 20.
C1_Witness ==
    /\ pc = "cleaned"
    /\ \E i, j, k \in 1..Len(files.fx["India"].obs) :
          /\ files.fx["India"].obs[i] = [d |-> DateCell(15), v |-> NumCell(10)]
          /\ files.fx["India"].obs[j] = [d |-> DateCell(15), v |-> NumCell(30)]
          /\ files.fx["India"].obs[k] = [d |-> DateCell(15), v |-> TextCell]
    /\ fx_m["India"] = <<[Date |-> 1, v |-> Num(20)]>>

\* df_g as load_data reads it: the sheet's rows below the first one
Dfg == SubSeq(files.gdp, 2, Len(files.gdp))

\* the rows of df_g for year y that hold a number for market mk
GdpObs(y, mk) == {k \in 1..Len(Dfg) : Dfg[k].Year = y /\ Dfg[k].GDP[mk][2] # 0}

\* the timestamps of the 'Macro data' sheet that parse
MacroDates == {files.macro[i].d.v : i \in {j \in 1..Len(files.macro) : files.macro[j].d.k = "date"}}

\* the months of an FX sheet with a value cell that satisfies counts
FxMonthsWith(src, counts(_)) == {m \in FxMonths(src) : FxCellsIn(src, m, counts) # {}}

\* the value of entry i after ffill then bfill of the column pre (mask na)
FilledFrom(pre, na, i) ==
    LET before == {j \in 1..i : ~na[j]}
        after  == {j \in i..Len(pre) : ~na[j]}
    IN  IF before # {} THEN pre[MaxOf(before)]
        ELSE IF after # {} THEN pre[MinOf(after)]
        ELSE pre[i]

\* C2 as claimed: a row of a month without a numeric daily value has Missing FX, and a
\* row of a year without a GDP observation has Missing GDP.
C2_NoGapFilling ==
    Loaded =>
        \A i \in 1..Len(BaseRows) : \A mk \in Markets :
            LET t == BaseRows[i].Date
            IN  t # -1 =>
                  /\ FxCellsIn(files.fx[mk], t \div 100, IsNumeric) = {}
                        => BaseRows[i].FX[mk][2] = 0
                  /\ GdpObs((t \div 100) \div 12, mk) = {} => BaseRows[i].GDP[mk][2] = 0

\* C2 as amended: gaps are filled from neighbours.  In clean_fx's result a month
\* without a counted daily value takes the mean of the nearest earlier month that has
\* one, else of the nearest later one, and is Missing only if no month has one.  In the
\* returned frame every GDP and FX cell that the joins left Missing takes the value of
\* the nearest earlier row that has one, else of the nearest later row, so a column
\* holds a Missing cell only if it holds nothing at all.
C2_GapsAreFilled ==
    Loaded =>
        /\ \A mk \in Markets : \A k \in 1..Len(fx_m[mk]) :
              LET src  == files.fx[mk]
                  m    == fx_m[mk][k].Date \div 100
                  have == FxMonthsWith(src, IsCounted)
                  from == IF \E x \in have : x <= m
                          THEN MaxOf({x \in have : x <= m}) ELSE MinOf(have)
              IN  IF have = {} THEN fx_m[mk][k].v[2] = 0
                  ELSE IsMeanOf(fx_m[mk][k].v, src, FxCellsIn(src, from, IsCounted))
        /\ Len(BaseRows) = Len(df_sorted)
        /\ \A mk \in Markets : \A i \in 1..Len(BaseRows) :
              LET n   == Len(df_sorted)
                  gdp == [j \in 1..n |-> df_sorted[j].GDP[mk]]
                  fx  == [j \in 1..n |-> df_sorted[j].FX[mk]]
              IN  /\ BaseRows[i].GDP[mk] = FilledFrom(gdp, [j \in 1..n |-> gdp[j][2] = 0], i)
                  /\ BaseRows[i].FX[mk] = FilledFrom(fx, [j \in 1..n |-> fx[j][2] = 0], i)
                  /\ (\E j \in 1..n : BaseRows[j].GDP[mk][2] # 0) => BaseRows[i].GDP[mk][2] # 0
                  /\ (\E j \in 1..n : BaseRows[j].FX[mk][2] # 0) => BaseRows[i].FX[mk][2] # 0

\* C2's case: the row of month 1, for which India's FX sheet has no value and whose
\* year has no GDP row, carries month 0's FX mean and the next year's GDP.
C2_Witness ==
    /\ Loaded
    /\ FxCellsIn(files.fx["India"], 1, IsNumeric) = {}
    /\ GdpObs(0, "India") = {}
    /\ \E i \in 1..Len(BaseRows) :
          /\ BaseRows[i].Date = 101
          /\ BaseRows[i].FX["India"] = Num(20)
          /\ BaseRows[i].GDP["India"] = Num(8)

\* C3 as claimed: every row dated in a year with a GDP observation v carries v, and all
\* twelve months of that year are rows of the frame.
C3_AnnualStepFill ==
    Loaded =>
        \A mk \in Markets : \A k \in 1..Len(Dfg) :
            (Dfg[k].Year >= 0 /\ Dfg[k].GDP[mk][2] # 0) =>
                /\ \A i \in 1..Len(BaseRows) :
                      (BaseRows[i].Date # -1 /\ (BaseRows[i].Date \div 100) \div 12 = Dfg[k].Year)
                          => BaseRows[i].GDP[mk] = Dfg[k].GDP[mk]
                /\ \A mo \in 0..11 : \E i \in 1..Len(BaseRows) :
                      BaseRows[i].Date = 100 * (12 * Dfg[k].Year + mo) + 1

\* C3 as amended: for a year for which df_g has exactly one row, holding the number v,
\* every row that stems from a 'Macro data' row dated in that year carries v; the frame
\* has rows only for the dates of the 'Macro data' sheet, so the year's twelve months
\* are not generated.
C3_YearRowsCarryValue ==
    Loaded =>
        /\ \A mk \in Markets : \A k \in 1..Len(Dfg) :
              (/\ Dfg[k].Year >= 0
               /\ Dfg[k].GDP[mk][2] # 0
               /\ \A k2 \in 1..Len(Dfg) : Dfg[k2].Year = Dfg[k].Year => k2 = k) =>
                  \A i \in 1..Len(df_sorted) :
                      (df_sorted[i].Date # -1 /\ (df_sorted[i].Date \div 100) \div 12 = Dfg[k].Year)
                          => BaseRows[i].GDP[mk] = Dfg[k].GDP[mk]
        /\ \A i \in 1..Len(BaseRows) : BaseRows[i].Date = -1 \/ BaseRows[i].Date \in MacroDates

\* C3's case: two months of year 0, the only ones of that year in the frame, both with
\* the year's single GDP value 6.
C3_Witness ==
    /\ Loaded
    /\ GdpObs(0, "India") # {}
    /\ \A k \in 1..Len(Dfg) : Dfg[k].Year = 0 => Dfg[k].GDP["India"] = Num(6)
    /\ \E i, j \in 1..Len(BaseRows) :
          /\ BaseRows[i].Date = 1 /\ BaseRows[j].Date = 101
          /\ BaseRows[i].GDP["India"] = Num(6) /\ BaseRows[j].GDP["India"] = Num(6)
    /\ \A i \in 1..Len(BaseRows) : BaseRows[i].Date # 201

\* the months for which some input series has a value
InputMonths ==
    {t \div 100 : t \in MacroDates}
    \cup UNION {IF FxStructureOk(files.fx[mk]) THEN FxMonthsWith(files.fx[mk], IsNumeric) ELSE {} :
                    mk \in Markets}
    \cup UNION {{12 * Dfg[k].Year + mo : mo \in 0..11} : k \in {j \in 1..Len(Dfg) : Dfg[j].Year >= 0}}

\* the number of rows a left join of the 'Macro data' rows from..Len with df_g on the year gives
RECURSIVE LeftJoinCount(_)
LeftJoinCount(from) ==
    IF from > Len(files.macro) THEN 0
    ELSE LET c == files.macro[from].d
             y == IF c.k = "date" THEN (c.v \div 100) \div 12 ELSE -1
             n == Cardinality({k \in 1..Len(Dfg) : Dfg[k].Year = y})
         IN  (IF n = 0 THEN 1 ELSE n) + LeftJoinCount(from + 1)

\* C4 as claimed: every month present in one of the input series is a row of the frame.
C4_OuterJoin ==
    Loaded => \A m \in InputMonths : \E i \in 1..Len(BaseRows) : BaseRows[i].Date \div 100 = m

\* C4 as amended: the series are left-joined onto the rows of the 'Macro data' sheet.
\* Each of its rows appears (once per df_g row of its year, and once if there is none),
\* the dates of the frame are exactly the dates of that sheet, and a month present only
\* in the GDP sheet or in an FX series gets no row.
C4_LeftJoinOnMacro ==
    Loaded =>
        /\ {BaseRows[i].Date : i \in 1..Len(BaseRows)} \ {-1} = MacroDates
        /\ Len(BaseRows) = LeftJoinCount(1)

\* C4's case: India's FX series has a value for month 2, which is no row of the frame,
\* and the frame has the row of month 12, for which that series has nothing.
C4_Witness ==
    /\ Loaded
    /\ 2 \in FxMonthsWith(files.fx["India"], IsNumeric)
    /\ 12 \notin FxMonths(files.fx["India"])
    /\ \A i \in 1..Len(BaseRows) : BaseRows[i].Date \div 100 # 2
    /\ \E i \in 1..Len(BaseRows) : BaseRows[i].Date = 1201

\* C5 as claimed: the Date values of the returned rows are strictly ascending.
C5_StrictlyAscending ==
    Loaded => \A i, j \in 1..Len(BaseRows) : i < j => BaseRows[i].Date < BaseRows[j].Date

EveryFileExists == \A k \in {"workbook", "inr", "gbp", "sgd"} : files.exists[k]

\* market mk's FX workbook is absent or has no usable sheet, date column or value column
FxSourceFails(mk) == ~files.exists[FxFile(mk)] \/ ~FxStructureOk(files.fx[mk])

\* C9 as claimed: when one FX source fails structurally (absent, or without a usable
\* sheet, date column or value column) and the other sources are readable, load_data
\* returns a frame in which that source's column is Missing.
C9_PerSourceIndependence ==
    (pc # "load" /\ df_raw = "raw") =>
        \A mk \in Markets :
            (/\ FxSourceFails(mk)
             /\ \A o \in Markets \ {mk} : ~FxSourceFails(o)
             /\ files.exists["workbook"] /\ files.readable) =>
                /\ ~heap["raw"].none
                /\ \A i \in 1..Len(BaseRows) : BaseRows[i].FX[mk][2] = 0

\* C9 as amended: when all four workbooks are present, the main workbook is readable
\* and its 'Macro data' sheet has a row, load_data returns a frame whatever the state of
\* the FX workbooks: the column of an FX workbook without a usable sheet, date column
\* or value column is Missing in every row, and a row dated at the start of a month
\* carries, for every usable FX workbook, the mean of that month's counted daily
\* values.  When any of the four workbooks is absent, or the main workbook cannot be
\* read, load_data returns None.
C9_PresentButUnusable ==
    (pc # "load" /\ df_raw = "raw") =>
        IF EveryFileExists /\ files.readable
        THEN files.macro # <<>> =>
             /\ ~heap["raw"].none
             /\ \A mk \in Markets : \A i \in 1..Len(BaseRows) :
                   IF ~FxStructureOk(files.fx[mk]) THEN BaseRows[i].FX[mk][2] = 0
                   ELSE LET t == df_sorted[i].Date
                            I == FxCellsIn(files.fx[mk], t \div 100, IsCounted)
                        IN  (t # -1 /\ t % 100 = 1 /\ I # {})
                                => IsMeanOf(BaseRows[i].FX[mk], files.fx[mk], I)
        ELSE heap["raw"].none

\* C9's case: India's FX workbook is present and has no usable structure; the frame is
\* returned with India's FX Missing and Singapore's FX mean of month 12.
C9_Witness ==
    /\ Loaded
    /\ ~FxStructureOk(files.fx["India"])
    /\ BaseRows # <<>>
    /\ \A i \in 1..Len(BaseRows) : BaseRows[i].FX["India"][2] = 0
    /\ \E i \in 1..Len(BaseRows) : BaseRows[i].FX["Singapore"] = Num(80)

EngineDone == pc \in {"metrics", "line159", "ended"} /\ df # "unbound"

\* C6: whenever the name df_raw is bound, the object it names equals, cell by cell, the
\* value load_data returned and the cache holds; the engine's updates reach only its copy.
C6_BaseFrameUnchanged ==
    df_raw = "raw" => (cache.hit /\ heap["raw"] = cache.value /\ df # "raw")

\* C6's case: a Stagflation run at severity 100 has ended; the base frame's latest
\* India CPI is still 5 and policy rate 6, the copy's latest CPI is 10.
C6_Witness ==
    /\ pc = "ended" /\ df = "work" /\ df_raw = "raw"
    /\ w.market = "India" /\ w.scenario = "Stagflation" /\ w.severity = 100 /\ w.lag = 0
    /\ Len(heap["raw"].rows) = 4
    /\ heap["raw"].rows[4].CPI["India"] = Num(5)
    /\ heap["raw"].rows[4].Policy["India"] = Num(6)
    /\ heap["work"].rows[4].CPI["India"] = Num(10)
    /\ heap["raw"] = cache.value

\* C7 as claimed: every row's Taylor value is r* + pi + 0.5 (pi - pi*) + 0.5 (y - mean y),
\* with pi and y the row's CPI and GDP growth as the engine uses them.
C7_TaylorFormula ==
    EngineDone =>
        LET f   == Shocked(heap["raw"], w)
            avg == AvgG(f, w)
        IN  \A i \in 1..Len(f.rows) :
              heap[df].Taylor[i] =
                  RAdd(RAdd(RAdd(Neutral(w.market), f.rows[i].CPI[w.market]),
                            RMul(Frac(1, 2), RSub(f.rows[i].CPI[w.market], Target(w.market)))),
                       RMul(Frac(1, 2), RSub(f.rows[i].GDP[w.market], avg)))

\* C8: the Taylor column is the one computed from the frame as shocked by the rate
\* adjustment and the scenario, and it is the same for every setting of the real-rate
\* toggle and of the lag.
C8_TaylorBeforeRealAndLag ==
    EngineDone =>
        /\ heap[df].Taylor = WithTaylor(Shocked(heap["raw"], w), w).Taylor
        /\ \A vr \in BOOLEAN : \A lg \in Lags :
              EngineFrame(heap["raw"], [w EXCEPT !.view_real = vr, !.lag = lg]).Taylor
                  = heap[df].Taylor

\* C8's case: a run with a scenario, the real-rate toggle and lag 3 on four rows: the
\* CPI column is shifted (Missing in row 1, a value in row 4), the policy rate is real,
\* and the Taylor column has a value in every row.
C8_Witness ==
    /\ EngineDone
    /\ w.scenario = "Depression" /\ w.view_real /\ w.lag = 3 /\ w.market = "India"
    /\ Len(heap[df].rows) = 4
    /\ heap[df].rows[1].CPI["India"] = NaN
    /\ heap[df].rows[4].CPI["India"] # NaN
    /\ heap[df].rows[4].Policy["India"] # heap["raw"].rows[4].Policy["India"]
    /\ \A i \in 1..4 : heap[df].Taylor[i] # NaN

\* C10 as claimed: a run ends without an unhandled exception; with None from load_data
\* it has shown the Missing Data error and no metrics, with a frame it has shown the
\* metrics and the charts and not the error.
C10_MissingDataPath ==
    pc = "ended" =>
        /\ exc = "none"
        /\ IF heap["raw"].none
           THEN "error" \in shown /\ "metrics" \notin shown
           ELSE {"metrics", "charts"} \subseteq shown /\ "error" \notin shown

====
